---------------------------- MODULE Spec2Model ----------------------------
(***************************************************************************)
(* Model of BetweenCountry.py: growth rates, Relative Year normalisation,  *)
(* the merge of per-country metric tables, the grouped correlation         *)
(* matrices, the highlighted extremal pairs and the interactive            *)
(* predefined-combination analysis.                                        *)
(*                                                                         *)
(* A DataFrame is a sequence of rows (positional order); a row is a record *)
(* whose field "index" is the row label.  Numbers are integers, quotients  *)
(* are exact fractions <<num, den>> in lowest terms with den > 0.          *)
(***************************************************************************)
EXTENDS Integers, Sequences, FiniteSets, TLC

VARIABLES
    raw,                \* normaliser: the table handed to the function
    df,                 \* normaliser: the table after the call
    gpc,                \* normaliser: "init" | "growth" | "normalized" | "raised"
    cleaned_data_dict,  \* merger: ordered mapping metric -> (AUS table, CHI table)
    merged_data,        \* merger: the table returned
    mpc,                \* merger: "init" | "returned"
    metric_groups,      \* correlation: ordered mapping group -> metrics
    country_suffix,     \* correlation: ordered mapping country -> suffix
    corr_args,          \* correlation: <<metrics, time_period>> of a direct call
    group_corr,         \* correlation: matrix returned by calculate_correlation
    correlation_matrices, \* correlation: country -> group -> matrix
    cpc,                \* correlation: "direct" | "compute" | "returned" | "raised"
    matrix,             \* highlight: the matrix of the group being processed
    highlight,          \* highlight: what was printed for that group
    groups_done,        \* highlight: number of groups processed so far
    hpc,                \* highlight: "loop" | "printed" | "returned" | "raised"
    key_input,          \* menu: the characters typed at the first prompt
    country_input,      \* menu: the characters typed at the second prompt
    prompts,            \* menu: number of input() calls made
    message,            \* menu: the last line printed
    correlation_value,  \* menu: the coefficient computed
    ppc                 \* menu: "menu" | "ask_country" | "returned" | "computed"

growthVars == <<raw, df, gpc>>

mergeVars == <<cleaned_data_dict, merged_data, mpc>>

corrVars == <<metric_groups, country_suffix, corr_args, group_corr,
              correlation_matrices, cpc>>

highlightVars == <<matrix, highlight, groups_done, hpc>>

menuVars == <<key_input, country_input, prompts, message, correlation_value, ppc>>

vars == <<growthVars, mergeVars, corrVars, highlightVars, menuVars>>

-----------------------------------------------------------------------------
(* Bounds and input pools *)

MaxLen == 4

Years == 2000 .. (2000 + MaxLen - 1)

MaxRel == 1

MaxPresent == 3

MaxCols == 3

MaxGroups == 2

MetricValues == {0, 50, 100, 150}

HostYears == {2000, 2008}

-----------------------------------------------------------------------------
(* Exact arithmetic *)

Abs(n) == IF n < 0 THEN -n ELSE n

RECURSIVE Gcd(_, _)
Gcd(a, b) == IF b = 0 THEN a ELSE Gcd(b, a % b)

\* the quotient n / d, d # 0, in lowest terms
Frac(n, d) ==
    LET g == Gcd(Abs(n), Abs(d))
        s == IF d < 0 THEN -1 ELSE 1
    IN  <<(s * n) \div g, (s * d) \div g>>

FracTimes(f, k) == Frac(f[1] * k, f[2])

Zero == <<0, 1>>

-----------------------------------------------------------------------------
(* DataFrame helpers *)

Range(s) == {s[i] : i \in DOMAIN s}

Injective(s) == \A i, j \in DOMAIN s : i # j => s[i] # s[j]

\* df.loc[label, column]: the row carrying that label
Loc(d, label) == d[CHOOSE p \in DOMAIN d : d[p].index = label]

\* df.reset_index(inplace=True): labels 0..n-1 in positional order
ResetIndex(d) ==
    [p \in DOMAIN d |-> [index |-> p - 1, Year |-> d[p].Year, value |-> d[p].value]]

\* df.sort_values(by='Year', inplace=True): rows reordered, labels kept
SortValuesByYear(d) ==
    [p \in DOMAIN d |->
        d[CHOOSE q \in DOMAIN d :
            Cardinality({r \in DOMAIN d : d[r].Year < d[q].Year}) = p - 1]]

-----------------------------------------------------------------------------
(* calculate_growth_rate *)

\* variant: the zero test is made on the current value
GrowthRateAt_ChecksCurrent(d, i) ==
    LET previous_year == Loc(d, i - 1).value
        current_year  == Loc(d, i).value
    IN  IF current_year = 0
        THEN Zero
        ELSE FracTimes(Frac(current_year - previous_year, previous_year), 100)

\* one iteration of the loop body: the rate appended for label i
GrowthRateAt(d, i) ==
    LET previous_year == Loc(d, i - 1).value
        current_year  == Loc(d, i).value
    IN  IF previous_year = 0
        THEN Zero
        ELSE FracTimes(Frac(current_year - previous_year, previous_year), 100)

\* the list growth_rates: [0] followed by one rate per label 1..n-1
GrowthRates(d) ==
    [k \in 1..(IF Len(d) = 0 THEN 1 ELSE Len(d)) |->
        IF k = 1 THEN Zero ELSE GrowthRateAt(d, k - 1)]

\* df['Growth Rate (%)'] = growth_rates needs a list as long as the table
GrowthRaises(d) == Len(GrowthRates(d)) # Len(d)

\* the list is attached by position, whatever the labels are
calculate_growth_rate(d) ==
    [p \in DOMAIN d |->
        [index |-> d[p].index, Year |-> d[p].Year, value |-> d[p].value,
         growth |-> GrowthRates(d)[p]]]

-----------------------------------------------------------------------------
(* index_rename_and_calculate_growth_rate *)

\* df['Year'].iloc[0] and .iloc[-1] need a row
NormalizeRaises(d) == Len(d) = 0

\* variant: the comparison of the first and last Year is inverted
HighToLow_Inverted(d) == d[1].Year < d[Len(d)].Year

HighToLow(d) == d[1].Year > d[Len(d)].Year

SortedIfDescending(d) == IF HighToLow(d) THEN SortValuesByYear(d) ELSE d

WithRelativeYear(d, host_year) ==
    [p \in DOMAIN d |->
        [index |-> d[p].index, Year |-> d[p].Year, value |-> d[p].value,
         growth |-> d[p].growth, rel |-> d[p].Year - host_year]]

index_rename_and_calculate_growth_rate(d, host_year) ==
    WithRelativeYear(calculate_growth_rate(SortedIfDescending(ResetIndex(d))),
                     host_year)

-----------------------------------------------------------------------------
(* Wide tables: [columns: sequence of names, rows: sequence of rows], a    *)
(* row maps every column to a cell; a cell is <<v>> or NaN (missing)       *)

NaN == <<>>

RelativeYear == "Relative Year"

\* pd.DataFrame()
EmptyFrame == [columns |-> <<>>, rows |-> <<>>]

\* DataFrame.empty: some axis has length 0
IsEmpty(f) == Len(f.columns) = 0 \/ Len(f.rows) = 0

RECURSIVE ConcatAll(_)
ConcatAll(ss) == IF ss = <<>> THEN <<>> ELSE Head(ss) \o ConcatAll(Tail(ss))

\* table[["Relative Year", metric_name]].rename(columns={metric_name: column})
SelectRename(table, column) ==
    [columns |-> <<RelativeYear, column>>,
     rows    |-> [p \in DOMAIN table |->
                    (RelativeYear :> <<table[p].rel>>) @@ (column :> <<table[p].value>>)]]

\* left.merge(right, on="Relative Year", how="left")
Merge(left, right) ==
    LET added == SelectSeq(right.columns, LAMBDA c : c # RelativeYear)
        Joined(l) ==
            LET matches == SelectSeq(right.rows,
                                     LAMBDA r : r[RelativeYear] = l[RelativeYear])
            IN  IF matches = <<>>
                THEN << [c \in Range(left.columns) \cup Range(added) |->
                            IF c \in Range(left.columns) THEN l[c] ELSE NaN] >>
                ELSE [k \in DOMAIN matches |->
                        [c \in Range(left.columns) \cup Range(added) |->
                            IF c \in Range(left.columns) THEN l[c] ELSE matches[k][c]]]
    IN  [columns |-> left.columns \o added,
         rows    |-> ConcatAll([p \in DOMAIN left.rows |-> Joined(left.rows[p])])]

-----------------------------------------------------------------------------
(* load_and_merge_data *)

\* one iteration of the loop over cleaned_data_dict.items()
MergeMetric(merged, entry) ==
    LET aus_data == SelectRename(entry.AUS, entry.metric \o "_AUS")
        chi_data == SelectRename(entry.CHI, entry.metric \o "_CHI")
    IN  IF IsEmpty(merged)
        THEN Merge(aus_data, chi_data)
        ELSE Merge(Merge(merged, aus_data), chi_data)

RECURSIVE MergeFrom(_, _)
MergeFrom(merged, entries) ==
    IF entries = <<>> THEN merged
    ELSE MergeFrom(MergeMetric(merged, Head(entries)), Tail(entries))

load_and_merge_data(dict) == MergeFrom(EmptyFrame, dict)

-----------------------------------------------------------------------------
(* Pearson coefficients: NaN, or <<sign, num, den>> with r * r = num / den *)

RECURSIVE Sum(_)
Sum(s) == IF s = <<>> THEN 0 ELSE Head(s) + Sum(Tail(s))

Sign(n) == IF n < 0 THEN -1 ELSE IF n > 0 THEN 1 ELSE 0

\* DataFrame.corr() for one pair of columns: the rows where both are
\* present; undefined without such rows or with a column of zero variance
Pearson(rows, a, b) ==
    LET valid == SelectSeq(rows, LAMBDA r : r[a] # NaN /\ r[b] # NaN)
        n   == Len(valid)
        sx  == Sum([i \in 1..n |-> valid[i][a][1]])
        sy  == Sum([i \in 1..n |-> valid[i][b][1]])
        sxy == Sum([i \in 1..n |-> valid[i][a][1] * valid[i][b][1]])
        sxx == Sum([i \in 1..n |-> valid[i][a][1] * valid[i][a][1]])
        syy == Sum([i \in 1..n |-> valid[i][b][1] * valid[i][b][1]])
        cov == n * sxy - sx * sy
        vx  == n * sxx - sx * sx
        vy  == n * syy - sy * sy
    IN  IF n = 0 \/ vx = 0 \/ vy = 0
        THEN NaN
        ELSE <<Sign(cov)>> \o Frac(cov * cov, vx * vy)

\* df[metrics].corr()
Corr(rows, metrics) ==
    [columns |-> metrics,
     coef    |-> [p \in Range(metrics) \X Range(metrics) |-> Pearson(rows, p[1], p[2])]]

-----------------------------------------------------------------------------
(* calculate_correlation *)

\* variant: the bounds of the window are excluded
Between_Exclusive(cell, lo, hi) == cell # NaN /\ lo < cell[1] /\ cell[1] < hi

\* Series.between(lo, hi): both bounds included
Between(cell, lo, hi) == cell # NaN /\ lo <= cell[1] /\ cell[1] <= hi

\* time_period is <<>> (None) or <<start, end>>
FilterPeriod(d, time_period) ==
    IF time_period # <<>>
    THEN SelectSeq(d.rows,
                   LAMBDA r : Between(r[RelativeYear], time_period[1], time_period[2]))
    ELSE d.rows

\* a column that is looked up and is not there
CorrelationRaises(d, metrics, time_period) ==
    \/ time_period # <<>> /\ RelativeYear \notin Range(d.columns)
    \/ \E i \in DOMAIN metrics : metrics[i] \notin Range(d.columns)

calculate_correlation(d, metrics, time_period) ==
    Corr(FilterPeriod(d, time_period), metrics)

-----------------------------------------------------------------------------
(* compute_country_correlation_matrices *)

ModuleMetricGroups ==
    << [group |-> "Economic",
        metrics |-> <<"GDP_per_capita", "FDI", "Gov_Consumption">>],
       [group |-> "Social",
        metrics |-> <<"Num_Arrivals", "Obesity_rate", "Underweight_rate",
                      "Unemployment_Rate(%)">>],
       [group |-> "Environmental", metrics |-> <<"MtCO2e">>] >>

ModuleCountrySuffix ==
    << [country |-> "Australia", suffix |-> "_AUS"],
       [country |-> "China", suffix |-> "_CHI"] >>

DefaultWindow == <<-5, 5>>

\* [f"{metric}{suffix}" for metric in metrics if f"{metric}{suffix}" in merged_data.columns]
GroupColumns(merged, metrics, suffix) ==
    SelectSeq([i \in DOMAIN metrics |-> metrics[i] \o suffix],
              LAMBDA c : c \in Range(merged.columns))

\* variant: one resolved column is enough
EnoughColumns_AtLeastOne(group_columns) == Len(group_columns) >= 1

\* len(group_columns) > 1
EnoughColumns(group_columns) == Len(group_columns) > 1

ComputeRaises(merged, groups, suffixes) ==
    \E i \in DOMAIN suffixes, j \in DOMAIN groups :
        LET group_columns == GroupColumns(merged, groups[j].metrics, suffixes[i].suffix)
        IN  /\ EnoughColumns(group_columns)
            /\ CorrelationRaises(merged, group_columns, DefaultWindow)

compute_country_correlation_matrices(merged, groups, suffixes) ==
    [country \in {suffixes[i].country : i \in DOMAIN suffixes} |->
        LET suffix == (CHOOSE i \in DOMAIN suffixes : suffixes[i].country = country)
        IN  [group \in {groups[j].group : j \in
                         {k \in DOMAIN groups :
                            EnoughColumns(GroupColumns(merged, groups[k].metrics,
                                                       suffixes[suffix].suffix))}} |->
                LET metrics == (CHOOSE g \in Range(groups) : g.group = group).metrics
                IN  calculate_correlation(
                        merged,
                        GroupColumns(merged, metrics, suffixes[suffix].suffix),
                        DefaultWindow)]]

-----------------------------------------------------------------------------
(* highlight_key_correlations_all_matrices *)

\* a <= b for two defined coefficients (r is monotone in sign(r) * r * r)
CoefLE(a, b) == a[1] * a[2] * b[3] <= b[1] * b[2] * a[3]

\* variant: the diagonal is not masked
Flattened_Unmasked(m) ==
    LET n == Len(m.columns)
    IN  [k \in 1..(n * n) |->
            LET c == ((k - 1) \div n) + 1
                r == ((k - 1) % n) + 1
            IN  [pair  |-> <<m.columns[c], m.columns[r]>>,
                 value |-> m.coef[<<m.columns[r], m.columns[c]>>]]]

\* matrix.where(~np.eye(n, dtype=bool)).unstack(): the entries column by
\* column, keyed (column, row), the diagonal positions replaced by NaN
Flattened(m) ==
    LET n == Len(m.columns)
    IN  [k \in 1..(n * n) |->
            LET c == ((k - 1) \div n) + 1
                r == ((k - 1) % n) + 1
            IN  [pair  |-> <<m.columns[c], m.columns[r]>>,
                 value |-> IF c = r THEN NaN
                           ELSE m.coef[<<m.columns[r], m.columns[c]>>]]]

Defined(flat) == SelectSeq(flat, LAMBDA e : e.value # NaN)

\* Series.idxmax() / max(), NaN skipped: the first entry no entry exceeds
FirstMax(flat) ==
    LET d == Defined(flat)
        p == CHOOSE i \in DOMAIN d :
                /\ \A j \in DOMAIN d : CoefLE(d[j].value, d[i].value)
                /\ \A j \in 1..(i - 1) : ~CoefLE(d[i].value, d[j].value)
    IN  d[p]

\* Series.idxmin() / min(), NaN skipped: the first entry that exceeds no entry
FirstMin(flat) ==
    LET d == Defined(flat)
        p == CHOOSE i \in DOMAIN d :
                /\ \A j \in DOMAIN d : CoefLE(d[i].value, d[j].value)
                /\ \A j \in 1..(i - 1) : ~CoefLE(d[j].value, d[i].value)
    IN  d[p]

\* the two lines printed for a group
Report(strongest, weakest) ==
    [strongest_pair |-> strongest.pair, strongest_value |-> strongest.value,
     weakest_pair |-> weakest.pair, weakest_value |-> weakest.value]

\* idxmax() of a Series without entries raises ValueError
IdxRaises(flat) == flat = <<>>

\* idxmax() of a Series whose entries are all NaN: NaN (with a warning) or
\* ValueError, depending on the pandas release
IdxAllNaN(flat) == flat # <<>> /\ Defined(flat) = <<>>

NaNEntry == [pair |-> NaN, value |-> NaN]

-----------------------------------------------------------------------------
(* predefined_correlation_analysis; a typed line is a sequence of characters *)

PredefinedCombinations ==
    ("1" :> <<"GDP_per_capita", "FDI">>) @@
    ("2" :> <<"GDP_per_capita", "Gov_Consumption">>) @@
    ("3" :> <<"Num_Arrivals", "GDP_per_capita">>) @@
    ("4" :> <<"Obesity_rate", "Underweight_rate">>) @@
    ("5" :> <<"GDP_per_capita", "MtCO2e">>) @@
    ("6" :> <<"Num_Arrivals", "MtCO2e">>) @@
    ("7" :> <<"Unemployment_Rate(%)", "GDP_per_capita">>)

IsSpace(ch) == ch = " "

RECURSIVE LStrip(_)
LStrip(line) ==
    IF line # <<>> /\ IsSpace(Head(line)) THEN LStrip(Tail(line)) ELSE line

RECURSIVE RStrip(_)
RStrip(line) ==
    IF line # <<>> /\ IsSpace(line[Len(line)])
    THEN RStrip(SubSeq(line, 1, Len(line) - 1))
    ELSE line

\* str.strip()
Strip(line) == RStrip(LStrip(line))

UpperChar(ch) ==
    CASE ch = "a" -> "A" [] ch = "u" -> "U" [] ch = "s" -> "S"
      [] ch = "c" -> "C" [] ch = "h" -> "H" [] ch = "i" -> "I"
      [] ch = "x" -> "X" [] OTHER -> ch

\* variant: the case of the letters is kept
Upper_Identity(line) == line

\* str.upper()
Upper(line) == [i \in DOMAIN line |-> UpperChar(line[i])]

\* the string the characters spell
RECURSIVE Join(_)
Join(line) == IF line = <<>> THEN "" ELSE Head(line) \o Join(Tail(line))

\* input(...).strip()
SelectedKey(line) == Join(Strip(line))

\* input(...).strip().upper()
SelectedCountry(line) == Join(Upper(Strip(line)))

ValidCountries == {"AUS", "CHI"}

\* metric1_col, metric2_col
SelectedColumns(selected_key, country) ==
    <<PredefinedCombinations[selected_key][1] \o ("_" \o country),
      PredefinedCombinations[selected_key][2] \o ("_" \o country)>>

HasColumn(d, c) == \E i \in DOMAIN d.columns : d.columns[i] = c

\* merged_data[[metric1_col, metric2_col]].corr().iloc[0, 1]
CorrelationValue(d, cols) == Corr(d.rows, cols).coef[<<cols[1], cols[2]>>]

-----------------------------------------------------------------------------
(* Specification of the normaliser: a raw table, then one call *)

\* the tables of n rows with unique Years, in any order
RawTables(n) ==
    {[p \in 1..n |-> [Year |-> ys[p], value |-> vs[p]]] :
        ys \in {y \in [1..n -> Years] : Injective(y)}, vs \in [1..n -> MetricValues]}

IdleGrowth == raw = <<>> /\ df = <<>> /\ gpc = "idle"

IdleMerge == cleaned_data_dict = <<>> /\ merged_data = <<>> /\ mpc = "idle"

IdleCorr ==
    /\ metric_groups = <<>>
    /\ country_suffix = <<>>
    /\ corr_args = <<>>
    /\ group_corr = <<>>
    /\ correlation_matrices = <<>>
    /\ cpc = "idle"

IdleHighlight == matrix = <<>> /\ highlight = <<>> /\ groups_done = 0 /\ hpc = "idle"

IdleMenu ==
    /\ key_input = <<>>
    /\ country_input = <<>>
    /\ prompts = 0
    /\ message = ""
    /\ correlation_value = <<>>
    /\ ppc = "idle"

InitGrowth ==
    /\ \E n \in 0..MaxLen : raw \in RawTables(n)
    /\ df = <<>>
    /\ gpc = "init"
    /\ IdleMerge
    /\ IdleCorr
    /\ IdleHighlight
    /\ IdleMenu

\* calculate_growth_rate(df, metric) on a table labelled 0..n-1 in order
CallCalculateGrowthRate ==
    /\ gpc = "init"
    /\ IF GrowthRaises(ResetIndex(raw))
       THEN /\ gpc' = "raised"
            /\ df' = <<>>
       ELSE /\ gpc' = "growth"
            /\ df' = calculate_growth_rate(ResetIndex(raw))
    /\ UNCHANGED <<raw, mergeVars, corrVars, highlightVars, menuVars>>

\* index_rename_and_calculate_growth_rate(df, host_year=..., metric_column=...)
CallIndexRename ==
    /\ gpc = "init"
    /\ IF NormalizeRaises(raw)
       THEN /\ gpc' = "raised"
            /\ df' = <<>>
       ELSE \E host_year \in HostYears :
            /\ gpc' = "normalized"
            /\ df' = index_rename_and_calculate_growth_rate(raw, host_year)
    /\ UNCHANGED <<raw, mergeVars, corrVars, highlightVars, menuVars>>

NextGrowth == CallCalculateGrowthRate \/ CallIndexRename

SpecGrowth == InitGrowth /\ [][NextGrowth]_vars

-----------------------------------------------------------------------------
(* Specification of the merger: a mapping of metrics, then one call *)

MetricNames == <<"GDP", "FDI">>

RelYears == -1 .. MaxRel

\* every cell of the inputs carries a value of its own
CellValue(k, tag, r) == 100 * k + (IF tag = "AUS" THEN 10 ELSE 20) + r

\* the rows of S in ascending Relative Year
TableOver(S, k, tag) ==
    LET Nth(p) == CHOOSE r \in S : Cardinality({q \in S : q < r}) = p - 1
    IN  [p \in 1..Cardinality(S) |-> [rel |-> Nth(p), value |-> CellValue(k, tag, Nth(p))]]

\* the mappings of the first n metrics to tables over any Relative Years
CleanedDicts(n) ==
    {[k \in 1..n |-> [metric |-> MetricNames[k],
                      AUS |-> TableOver(a[k], k, "AUS"),
                      CHI |-> TableOver(c[k], k, "CHI")]] :
        a \in [1..n -> SUBSET RelYears], c \in [1..n -> SUBSET RelYears]}

InitMerge ==
    /\ \E n \in 0..Len(MetricNames) : cleaned_data_dict \in CleanedDicts(n)
    /\ merged_data = EmptyFrame
    /\ mpc = "init"
    /\ IdleGrowth
    /\ IdleCorr
    /\ IdleHighlight
    /\ IdleMenu

CallLoadAndMerge ==
    /\ mpc = "init"
    /\ merged_data' = load_and_merge_data(cleaned_data_dict)
    /\ mpc' = "returned"
    /\ UNCHANGED <<cleaned_data_dict, growthVars, corrVars, highlightVars, menuVars>>

NextMerge == CallLoadAndMerge

SpecMerge == InitMerge /\ [][NextMerge]_vars

-----------------------------------------------------------------------------
(* Specification of the correlation engine: a merged table and either one  *)
(* direct call of calculate_correlation or one call of                     *)
(* compute_country_correlation_matrices                                    *)

RelPool == {-6, -5, 0, 5, 6}

\* the elements of a set of integers in ascending order
Ascending(S) ==
    [p \in 1..Cardinality(S) |->
        CHOOSE r \in S : Cardinality({q \in S : q < r}) = p - 1]

\* the value series of a column, as a function of the Relative Year
Shapes == {"linear", "square", "gaps"}

SeriesCell(shape, r) ==
    CASE shape = "linear" -> <<r>>
      [] shape = "square" -> <<r * r>>
      [] shape = "gaps"   -> IF r < 0 THEN NaN ELSE <<5 - r>>

\* the table with the columns DOMAIN shapeOf (in the order of pool), each
\* with its series, over the Relative Years S
FrameOver(pool, shapeOf, S) ==
    LET present == SelectSeq(pool, LAMBDA c : c \in DOMAIN shapeOf)
        years   == Ascending(S)
    IN  [columns |-> <<RelativeYear>> \o present,
         rows    |-> [p \in DOMAIN years |->
                        [c \in {RelativeYear} \cup DOMAIN shapeOf |->
                            IF c = RelativeYear THEN <<years[p]>>
                            ELSE SeriesCell(shapeOf[c], years[p])]]]

\* every column {metric}{suffix} of a configuration, in order
ConfigColumns(groups, suffixes) ==
    ConcatAll([i \in DOMAIN suffixes |->
        ConcatAll([j \in DOMAIN groups |->
            [k \in DOMAIN groups[j].metrics |->
                groups[j].metrics[k] \o suffixes[i].suffix]])])

TestMetricGroups ==
    << [group |-> "Economic", metrics |-> <<"GDP", "FDI">>],
       [group |-> "Environmental", metrics |-> <<"MtCO2e">>] >>

\* any set of the columns of a configuration, each with any series, over
\* the Relative Years S
FramesOf(groups, suffixes, S) ==
    LET pool == ConfigColumns(groups, suffixes)
    IN  UNION {{FrameOver(pool, shapeOf, S) : shapeOf \in [C -> Shapes]} :
               C \in SUBSET Range(pool)}

\* the series the module's columns carry: one per metric
ModuleShape(c) ==
    CASE c \in {"GDP_per_capita_AUS", "Num_Arrivals_AUS", "Unemployment_Rate(%)_AUS",
                "FDI_CHI", "Obesity_rate_CHI", "MtCO2e_CHI"} -> "linear"
      [] c \in {"FDI_AUS", "Obesity_rate_AUS", "MtCO2e_AUS",
                "Gov_Consumption_CHI", "Underweight_rate_CHI"} -> "square"
      [] OTHER -> "gaps"

\* at most MaxPresent of the columns of a configuration, or all of them but
\* one, or all of them, over all the Relative Years
SparseOrFullFramesOf(groups, suffixes) ==
    LET pool == ConfigColumns(groups, suffixes)
    IN  {FrameOver(pool, [c \in C |-> ModuleShape(c)], RelPool) :
            C \in {D \in SUBSET Range(pool) :
                     \/ Cardinality(D) <= MaxPresent
                     \/ Cardinality(D) >= Len(pool) - 1}}

\* two columns with free cells, for the direct calls
DirectColumns == <<"GDP_AUS", "FDI_AUS">>

DirectCells == {<<1>>, <<2>>}

\* the tables over the Relative Years S with any cells
DirectFrames(S) ==
    {[columns |-> <<RelativeYear>> \o DirectColumns,
      rows    |-> [p \in 1..Cardinality(S) |->
                     [c \in {RelativeYear} \cup Range(DirectColumns) |->
                         IF c = RelativeYear THEN <<Ascending(S)[p]>>
                         ELSE cells[Ascending(S)[p]][c]]]] :
        cells \in [S -> [Range(DirectColumns) -> DirectCells]]}

DirectMetrics ==
    {<<"GDP_AUS">>, <<"FDI_AUS">>, <<"GDP_AUS", "FDI_AUS">>, <<"FDI_AUS", "GDP_AUS">>}

TimePeriods == {<<>>, <<-5, 5>>, <<0, 6>>}

InitCorr ==
    /\ \/ /\ cpc = "direct"
          /\ \E S \in SUBSET RelPool : merged_data \in DirectFrames(S)
          /\ metric_groups = <<>>
          /\ country_suffix = <<>>
       \/ /\ cpc = "compute"
          /\ \E S \in SUBSET RelPool :
                merged_data \in FramesOf(TestMetricGroups, ModuleCountrySuffix, S)
          /\ metric_groups = TestMetricGroups
          /\ country_suffix = ModuleCountrySuffix
       \/ /\ cpc = "compute"
          /\ merged_data \in SparseOrFullFramesOf(ModuleMetricGroups, ModuleCountrySuffix)
          /\ metric_groups = ModuleMetricGroups
          /\ country_suffix = ModuleCountrySuffix
    /\ corr_args = <<>>
    /\ group_corr = <<>>
    /\ correlation_matrices = <<>>
    /\ cleaned_data_dict = <<>>
    /\ mpc = "idle"
    /\ IdleGrowth
    /\ IdleHighlight
    /\ IdleMenu

\* calculate_correlation(df, metrics, time_period)
CallCalculateCorrelation ==
    /\ cpc = "direct"
    /\ \E metrics \in DirectMetrics, time_period \in TimePeriods :
        /\ corr_args' = <<metrics, time_period>>
        /\ IF CorrelationRaises(merged_data, metrics, time_period)
           THEN /\ cpc' = "raised"
                /\ group_corr' = <<>>
           ELSE /\ cpc' = "returned"
                /\ group_corr' = calculate_correlation(merged_data, metrics, time_period)
    /\ UNCHANGED <<merged_data, metric_groups, country_suffix, correlation_matrices,
                   cleaned_data_dict, mpc, growthVars, highlightVars, menuVars>>

\* compute_country_correlation_matrices(merged_data, metric_groups, country_suffix)
CallComputeCountryCorrelationMatrices ==
    /\ cpc = "compute"
    /\ IF ComputeRaises(merged_data, metric_groups, country_suffix)
       THEN /\ cpc' = "raised"
            /\ correlation_matrices' = <<>>
       ELSE /\ cpc' = "returned"
            /\ correlation_matrices' =
                  compute_country_correlation_matrices(merged_data, metric_groups,
                                                       country_suffix)
    /\ UNCHANGED <<merged_data, metric_groups, country_suffix, corr_args, group_corr,
                   cleaned_data_dict, mpc, growthVars, highlightVars, menuVars>>

NextCorr == CallCalculateCorrelation \/ CallComputeCountryCorrelationMatrices

SpecCorr == InitCorr /\ [][NextCorr]_vars

-----------------------------------------------------------------------------
(* Specification of the highlighting: the loop over the group matrices of  *)
(* one country, one group per step                                         *)

ColumnPool ==
    <<"GDP_per_capita_AUS", "FDI_AUS", "Gov_Consumption_AUS", "Num_Arrivals_AUS",
      "Obesity_rate_AUS">>

\* -1, -1/2, 0, 1/2, 1 and the undefined coefficient
CoefPool == {NaN, <<-1, 1, 1>>, <<-1, 1, 4>>, <<0, 0, 1>>, <<1, 1, 4>>, <<1, 1, 1>>}

\* the symmetric n x n matrices with diagonal 1
Matrices(n) ==
    LET cols  == SubSeq(ColumnPool, 1, n)
        pairs == {p \in (1..n) \X (1..n) : p[1] < p[2]}
    IN  {[columns |-> cols,
          coef    |-> [q \in Range(cols) \X Range(cols) |->
                          LET i == CHOOSE k \in 1..n : cols[k] = q[1]
                              j == CHOOSE k \in 1..n : cols[k] = q[2]
                          IN  IF i = j THEN <<1, 1, 1>>
                              ELSE IF i < j THEN upper[<<i, j>>] ELSE upper[<<j, i>>]]] :
            upper \in [pairs -> CoefPool]}

InitHighlight ==
    /\ matrix = <<>>
    /\ highlight = <<>>
    /\ groups_done = 0
    /\ hpc = "loop"
    /\ IdleGrowth
    /\ IdleMerge
    /\ IdleCorr
    /\ IdleMenu

\* the body of "for group, matrix in correlation_matrices.items()" for the
\* next group, whose matrix is m
HighlightGroup ==
    /\ hpc = "loop"
    /\ groups_done < MaxGroups
    /\ \E n \in 0..MaxCols : \E m \in Matrices(n) :
        /\ matrix' = m
        /\ groups_done' = groups_done + 1
        /\ \/ /\ Defined(Flattened(m)) # <<>>
              /\ highlight' = Report(FirstMax(Flattened(m)), FirstMin(Flattened(m)))
              /\ hpc' = "printed"
           \/ /\ IdxAllNaN(Flattened(m))
              /\ highlight' = Report(NaNEntry, NaNEntry)
              /\ hpc' = "printed"
           \/ /\ IdxAllNaN(Flattened(m)) \/ IdxRaises(Flattened(m))
              /\ highlight' = <<>>
              /\ hpc' = "raised"
    /\ UNCHANGED <<growthVars, mergeVars, corrVars, menuVars>>

\* back to the loop header: the locals of the body are dead
NextIteration ==
    /\ hpc = "printed"
    /\ hpc' = "loop"
    /\ matrix' = <<>>
    /\ highlight' = <<>>
    /\ UNCHANGED <<groups_done, growthVars, mergeVars, corrVars, menuVars>>

\* the loop has no more groups
HighlightReturn ==
    /\ hpc = "loop"
    /\ hpc' = "returned"
    /\ UNCHANGED <<matrix, highlight, groups_done, growthVars, mergeVars, corrVars, menuVars>>

NextHighlight == HighlightGroup \/ NextIteration \/ HighlightReturn

SpecHighlight == InitHighlight /\ [][NextHighlight]_vars

-----------------------------------------------------------------------------
(* Specification of the interactive analysis: a merged table, the line     *)
(* typed at the first prompt and, if asked for, the line typed at the      *)
(* second                                                                  *)

KeyLines ==
    { <<"1">>, <<"2">>, <<"3">>, <<"4">>, <<"5">>, <<"6">>, <<"7">>,
      <<" ", "1">>, <<"5", " ">>, <<" ", "7", " ", " ">>,
      <<>>, <<" ">>, <<"0">>, <<"8">>, <<"1", "2">>, <<"1", " ", "1">>, <<"x">> }

CountryLines ==
    { <<"A", "U", "S">>, <<"a", "u", "s">>, <<" ", "A", "u", "s", " ">>,
      <<"C", "H", "I">>, <<"c", "h", "i", " ">>, <<" ", " ", "C", "h", "I">>,
      <<>>, <<" ">>, <<"A", "U">>, <<"A", " ", "U", "S">>, <<"U", "S", "A">>,
      <<"_", "A", "U", "S">>, <<"a", "u", "s", "x">> }

InitMenu ==
    /\ merged_data \in SparseOrFullFramesOf(ModuleMetricGroups, ModuleCountrySuffix)
    /\ key_input = <<>>
    /\ country_input = <<>>
    /\ prompts = 0
    /\ message = ""
    /\ correlation_value = <<>>
    /\ ppc = "menu"
    /\ cleaned_data_dict = <<>>
    /\ mpc = "idle"
    /\ IdleGrowth
    /\ IdleCorr
    /\ IdleHighlight

\* the menu, the first prompt and the test of the key
SelectCombination ==
    /\ ppc = "menu"
    /\ \E line \in KeyLines :
        /\ key_input' = line
        /\ prompts' = prompts + 1
        /\ IF SelectedKey(line) \notin DOMAIN PredefinedCombinations
           THEN /\ message' = "Invalid selection!"
                /\ ppc' = "returned"
           ELSE /\ message' = "Selected combination"
                /\ ppc' = "ask_country"
    /\ UNCHANGED <<country_input, correlation_value, merged_data, cleaned_data_dict,
                   mpc, growthVars, corrVars, highlightVars>>

\* the second prompt, the test of the country, the test of the columns and
\* the correlation
SelectCountry ==
    /\ ppc = "ask_country"
    /\ \E line \in CountryLines :
        LET country == SelectedCountry(line)
        IN  /\ country_input' = line
            /\ prompts' = prompts + 1
            /\ IF country \notin ValidCountries
               THEN /\ message' = "Invalid country suffix!"
                    /\ ppc' = "returned"
                    /\ UNCHANGED correlation_value
               ELSE LET cols == SelectedColumns(SelectedKey(key_input), country)
                    IN  IF ~HasColumn(merged_data, cols[1]) \/ ~HasColumn(merged_data, cols[2])
                        THEN /\ message' = "Missing"
                             /\ ppc' = "returned"
                             /\ UNCHANGED correlation_value
                        ELSE /\ message' = "Correlation"
                             /\ ppc' = "computed"
                             /\ correlation_value' = CorrelationValue(merged_data, cols)
    /\ UNCHANGED <<key_input, merged_data, cleaned_data_dict, mpc, growthVars, corrVars,
                   highlightVars>>

NextMenu == SelectCombination \/ SelectCountry

SpecMenu == InitMenu /\ [][NextMenu]_vars

-----------------------------------------------------------------------------
(* Properties of the normaliser *)

Values(d) == [p \in DOMAIN d |-> d[p].value]

StrictlyIncreasing(s) == \A i, j \in DOMAIN s : i < j => s[i] < s[j]

StrictlyDecreasing(s) == \A i, j \in DOMAIN s : i < j => s[i] > s[j]

YearsOf(d) == [p \in DOMAIN d |-> d[p].Year]

\* C1: calculate_growth_rate on a table labelled 0..n-1 (n >= 1) attaches n
\* rates: the first is 0; rate i is 0 when value i-1 is 0 and otherwise
\* satisfies rate * v[i-1] = (v[i] - v[i-1]) * 100; row order, labels and
\* values are unchanged; v = [100, 150, 0, 50] gives [0, 50, -100, 0].
C1_GrowthRate ==
    gpc = "growth" =>
        /\ Len(raw) >= 1
        /\ Len(df) = Len(raw)
        /\ df[1].growth = <<0, 1>>
        /\ \A i \in 2..Len(df) :
            /\ df[i].growth[2] > 0
            /\ raw[i-1].value = 0 => df[i].growth = <<0, 1>>
            /\ raw[i-1].value # 0 =>
                  df[i].growth[1] * raw[i-1].value
                      = (raw[i].value - raw[i-1].value) * 100 * df[i].growth[2]
        /\ \A i \in DOMAIN df :
            /\ df[i].index = i - 1
            /\ df[i].value = raw[i].value
            /\ df[i].Year = raw[i].Year
        /\ Values(raw) = <<100, 150, 0, 50>> =>
              [i \in DOMAIN df |-> df[i].growth]
                  = << <<0, 1>>, <<50, 1>>, <<-100, 1>>, <<0, 1>> >>

C1_Witness ==
    /\ gpc = "growth"
    /\ Values(raw) = <<100, 150, 0, 50>>
    /\ df[3].growth = <<-100, 1>>

\* the record of table d with the greatest Year below y
Preceding(d, y) ==
    CHOOSE r \in Range(d) :
        /\ r.Year < y
        /\ \A q \in Range(d) : q.Year < y => q.Year <= r.Year

\* percentage change of the metric from the record with the immediately
\* preceding Year to record r, 0 for the earliest record
GrowthInYearOrder(d, r) ==
    IF \A q \in Range(d) : q.Year >= r.Year
    THEN <<0, 1>>
    ELSE LET prev == Preceding(d, r.Year).value
         IN  IF prev = 0 THEN <<0, 1>>
             ELSE Frac((r.value - prev) * 100, prev)

\* C2: for a raw table in strictly descending Year order the returned
\* growth rate of every record is the change from the record of the
\* immediately preceding Year (0 for the earliest and after a 0 value).
C2_GrowthInYearOrder ==
    (gpc = "normalized" /\ StrictlyDecreasing(YearsOf(raw))) =>
        \A p \in DOMAIN df : df[p].growth = GrowthInYearOrder(raw, df[p])

\* C8 as stated: whatever the initial order of unique Years, the returned
\* table has strictly increasing Year.
C8_AnyOrderSorted ==
    (gpc = "normalized" /\ Injective(YearsOf(raw))) =>
        StrictlyIncreasing(YearsOf(df))

\* C8 amended: for unique Years that are already strictly increasing, or
\* whose first Year is greater than the last (any descending table), the
\* returned table has strictly increasing Year and Relative Year.
C8_MonotoneSorted ==
    (/\ gpc = "normalized"
     /\ Injective(YearsOf(raw))
     /\ \/ StrictlyIncreasing(YearsOf(raw))
        \/ raw[1].Year > raw[Len(raw)].Year) =>
        /\ StrictlyIncreasing(YearsOf(df))
        /\ StrictlyIncreasing([p \in DOMAIN df |-> df[p].rel])
        /\ {<<r.Year, r.value>> : r \in Range(df)}
               = {<<r.Year, r.value>> : r \in Range(raw)}

C8_Witness ==
    /\ gpc = "normalized"
    /\ Len(raw) >= 3
    /\ StrictlyDecreasing(YearsOf(raw))
    /\ StrictlyIncreasing(YearsOf(df))

-----------------------------------------------------------------------------
(* Properties of the merger *)

RelYearSet(f) == {row[RelativeYear] : row \in Range(f.rows)}

\* the cell a country table holds at Relative Year cell, NaN without a row
ValueAt(table, cell) ==
    IF \E r \in Range(table) : <<r.rel>> = cell
    THEN <<(CHOOSE r \in Range(table) : <<r.rel>> = cell).value>>
    ELSE NaN

\* C3: for a non-empty mapping the returned table has exactly the Relative
\* Years of the first metric's AUS table, a column {metric}_AUS and
\* {metric}_CHI for every metric, and each holds the country table's value
\* at the row's Relative Year or a missing value; also for tables without rows.
C3_MergeAnchored ==
    (mpc = "returned" /\ Len(cleaned_data_dict) >= 1) =>
        /\ RelYearSet(merged_data)
               = {<<r.rel>> : r \in Range(cleaned_data_dict[1].AUS)}
        /\ \A k \in DOMAIN cleaned_data_dict :
            LET e == cleaned_data_dict[k]
            IN  /\ (e.metric \o "_AUS") \in Range(merged_data.columns)
                /\ (e.metric \o "_CHI") \in Range(merged_data.columns)
                /\ \A row \in Range(merged_data.rows) :
                    /\ row[e.metric \o "_AUS"] = ValueAt(e.AUS, row[RelativeYear])
                    /\ row[e.metric \o "_CHI"] = ValueAt(e.CHI, row[RelativeYear])

-----------------------------------------------------------------------------
(* Properties of the correlation engine *)

SuffixOf(country) ==
    (CHOOSE e \in Range(country_suffix) : e.country = country).suffix

MetricsOf(group) ==
    (CHOOSE e \in Range(metric_groups) : e.group = group).metrics

\* the metrics of a group that have a column {metric}{suffix} in the table
Resolved(group, country) ==
    {m \in Range(MetricsOf(group)) :
        \E i \in DOMAIN merged_data.columns :
            merged_data.columns[i] = m \o SuffixOf(country)}

\* C4: compute_country_correlation_matrices returns without raising one
\* entry per country; a mat exists for (country, group) exactly when at
\* least 2 metrics of the group have a column {metric}{suffix}; its columns
\* are exactly the resolved ones; a skipped group does not affect the others.
C4_MatrixIffTwoResolved ==
    metric_groups # <<>> =>
        /\ cpc # "raised"
        /\ cpc = "returned" =>
            /\ DOMAIN correlation_matrices = {e.country : e \in Range(country_suffix)}
            /\ \A c \in Range(country_suffix), g \in Range(metric_groups) :
                LET exists == g.group \in DOMAIN correlation_matrices[c.country]
                    names  == {m \o c.suffix : m \in Resolved(g.group, c.country)}
                IN  /\ exists <=> Cardinality(Resolved(g.group, c.country)) >= 2
                    /\ exists =>
                        LET mat == correlation_matrices[c.country][g.group]
                        IN  /\ Range(mat.columns) = names
                            /\ Len(mat.columns) = Cardinality(names)
                            /\ DOMAIN mat.coef = names \X names

C4_Witness ==
    /\ cpc = "returned"
    /\ metric_groups = TestMetricGroups
    /\ "Economic" \in DOMAIN correlation_matrices["China"]
    /\ "Economic" \notin DOMAIN correlation_matrices["Australia"]
    /\ Cardinality(Resolved("Economic", "Australia")) = 1

\* the rows of the table whose Relative Year is one of lo, lo+1, ..., hi
RowsWithin(d, lo, hi) ==
    SelectSeq(d.rows, LAMBDA r : \E y \in lo..hi : r[RelativeYear] = <<y>>)

\* C5: calculate_correlation with a window (lo, hi) uses exactly the rows
\* with lo <= Relative Year <= hi and exactly the given columns, all rows
\* without a window, and leaves the caller's table as it was;
\* compute_country_correlation_matrices always uses the window (-5, 5).
C5_WindowInclusive ==
    [][ /\ merged_data' = merged_data
        /\ (cpc' = "returned" /\ corr_args' # <<>>) =>
              LET metrics == corr_args'[1]
                  period  == corr_args'[2]
                  used    == IF period = <<>> THEN merged_data.rows
                             ELSE RowsWithin(merged_data, period[1], period[2])
              IN  /\ group_corr'.columns = metrics
                  /\ DOMAIN group_corr'.coef = Range(metrics) \X Range(metrics)
                  /\ \A a, b \in Range(metrics) :
                        group_corr'.coef[<<a, b>>] = Pearson(used, a, b)
        /\ (cpc' = "returned" /\ metric_groups # <<>>) =>
              \A country \in DOMAIN correlation_matrices' :
                \A group \in DOMAIN correlation_matrices'[country] :
                    LET mat == correlation_matrices'[country][group]
                    IN  \A a, b \in Range(mat.columns) :
                            mat.coef[<<a, b>>]
                                = Pearson(RowsWithin(merged_data, -5, 5), a, b)
      ]_vars

\* a direct call with the window (-5, 5) on a table with rows at -6, -5, 0,
\* 5 and 6, where the rows left out and the rows at the bounds both matter
C5_Witness ==
    /\ cpc = "returned"
    /\ corr_args = << <<"GDP_AUS", "FDI_AUS">>, <<-5, 5>> >>
    /\ Len(merged_data.rows) = 5
    /\ group_corr.coef[<<"GDP_AUS", "FDI_AUS">>] # NaN
    /\ group_corr.coef[<<"GDP_AUS", "FDI_AUS">>]
           # Pearson(merged_data.rows, "GDP_AUS", "FDI_AUS")
    /\ group_corr.coef[<<"GDP_AUS", "FDI_AUS">>]
           # Pearson(RowsWithin(merged_data, -4, 4), "GDP_AUS", "FDI_AUS")

\* C10: with the module's metric_groups and country_suffix no Environmental
\* mat is ever produced, and every mat has at least 2 columns, all of
\* them {metric}{suffix} with the suffix of its country.
C10_NoEnvironmentalMatrix ==
    (cpc = "returned" /\ metric_groups = ModuleMetricGroups
                      /\ country_suffix = ModuleCountrySuffix) =>
        \A country \in DOMAIN correlation_matrices :
            /\ "Environmental" \notin DOMAIN correlation_matrices[country]
            /\ \A group \in DOMAIN correlation_matrices[country] :
                LET mat == correlation_matrices[country][group]
                IN  /\ Len(mat.columns) >= 2
                    /\ \A i \in DOMAIN mat.columns :
                        \E m \in Range(MetricsOf(group)) :
                            mat.columns[i] = m \o SuffixOf(country)

C10_Witness ==
    /\ cpc = "returned"
    /\ metric_groups = ModuleMetricGroups
    /\ \E i \in DOMAIN merged_data.columns : merged_data.columns[i] = "MtCO2e_AUS"
    /\ DOMAIN correlation_matrices["Australia"] = {"Economic"}
    /\ Len(correlation_matrices["Australia"]["Economic"].columns) = 2

-----------------------------------------------------------------------------
(* Properties of the highlighting *)

OffDiagonal(m) == {p \in Range(m.columns) \X Range(m.columns) : p[1] # p[2]}

\* C6: for a matrix of at least 2 x 2 with defined coefficients the
\* strongest pair (a, b) has a # b and a coefficient >= every off-diagonal
\* one, the weakest pair (c, d) has c # d and a coefficient <= every
\* off-diagonal one, and each reported value is the coefficient of its pair.
C6_ExtremalOffDiagonal ==
    (/\ hpc \in {"printed", "raised"}
     /\ Len(matrix.columns) >= 2
     /\ \A p \in OffDiagonal(matrix) : matrix.coef[p] # NaN) =>
        /\ hpc = "printed"
        /\ highlight.strongest_pair \in OffDiagonal(matrix)
        /\ highlight.weakest_pair \in OffDiagonal(matrix)
        /\ highlight.strongest_value = matrix.coef[highlight.strongest_pair]
        /\ highlight.weakest_value = matrix.coef[highlight.weakest_pair]
        /\ \A p \in OffDiagonal(matrix) :
            /\ CoefLE(matrix.coef[p], highlight.strongest_value)
            /\ CoefLE(highlight.weakest_value, matrix.coef[p])

\* the strongest coefficient is 1/2, below the 1 of the diagonal
C6_Witness ==
    /\ hpc = "printed"
    /\ Len(matrix.columns) = 3
    /\ {matrix.coef[p] : p \in OffDiagonal(matrix)}
           = {<<-1, 1, 4>>, <<0, 0, 1>>, <<1, 1, 4>>}
    /\ highlight.strongest_value = <<1, 1, 4>>
    /\ highlight.weakest_value = <<-1, 1, 4>>

\* C9: for a group whose matrix is 1 x 1 or empty the function does not
\* raise, reports no strongest or weakest pair, and goes on with the
\* remaining groups.
C9_SmallMatrixGuarded ==
    (hpc \in {"printed", "raised"} /\ Len(matrix.columns) <= 1) =>
        /\ hpc # "raised"
        /\ highlight = <<>>

-----------------------------------------------------------------------------
(* Properties of the interactive analysis *)

\* the line is the word, letter by letter in either case, between spaces
Spells(line, word) ==
    \E start \in 0..Len(line) :
        /\ start + Len(word) <= Len(line)
        /\ \A p \in DOMAIN line :
            IF p > start /\ p <= start + Len(word)
            THEN line[p] \in word[p - start]
            ELSE line[p] = " "

KeyWords == [k \in DOMAIN PredefinedCombinations |-> <<{k}>>]

CountryWords ==
    ("AUS" :> <<{"A", "a"}, {"U", "u"}, {"S", "s"}>>) @@
    ("CHI" :> <<{"C", "c"}, {"H", "h"}, {"I", "i"}>>)

KeyRecognized(line) == \E k \in DOMAIN KeyWords : Spells(line, KeyWords[k])

CountryRecognized(line) == \E t \in DOMAIN CountryWords : Spells(line, CountryWords[t])

\* both columns {metric}_{country} of the selection exist in the table
ColumnsExist(d, keyLine, countryLine) ==
    \E k \in DOMAIN KeyWords, t \in DOMAIN CountryWords :
        /\ Spells(keyLine, KeyWords[k])
        /\ Spells(countryLine, CountryWords[t])
        /\ \A n \in {1, 2} :
            (PredefinedCombinations[k][n] \o "_" \o t) \in Range(d.columns)

\* C7: a correlation is computed only when the trimmed key is a key of
\* predefined_combinations, the trimmed upper-cased country is AUS or CHI and
\* both columns exist; otherwise the function reports and returns, computes
\* nothing and leaves the table unchanged; after an unrecognized key the
\* country is never asked for.
C7_ValidatedSelection ==
    [][ /\ merged_data' = merged_data
        /\ ppc' \in {"menu", "ask_country", "returned", "computed"}
        /\ ppc' = "computed" =>
              /\ KeyRecognized(key_input')
              /\ CountryRecognized(country_input')
              /\ ColumnsExist(merged_data, key_input', country_input')
        /\ ppc' = "returned" =>
              /\ ~(/\ KeyRecognized(key_input')
                   /\ prompts' = 2
                   /\ CountryRecognized(country_input')
                   /\ ColumnsExist(merged_data, key_input', country_input'))
              /\ correlation_value' = <<>>
              /\ message' \in {"Invalid selection!", "Invalid country suffix!", "Missing"}
        /\ (ppc' = "returned" /\ ~KeyRecognized(key_input')) =>
              /\ prompts' = 1
              /\ country_input' = <<>>
              /\ message' = "Invalid selection!"
      ]_vars

C7_Witness ==
    /\ ppc = "computed"
    /\ key_input = <<" ", "7", " ", " ">>
    /\ country_input = <<" ", " ", "C", "h", "I">>
    /\ correlation_value # NaN
    /\ Len(merged_data.columns) = 3

=============================================================================
